---- MODULE Spec2Model ----
(***************************************************************************)
(* A model of remove.py, the comment remover.                              *)
(*                                                                         *)
(* File contents are sequences of characters (one-character strings); the  *)
(* character "Q" abbreviates a triple quote.                               *)
(***************************************************************************)
EXTENDS Integers, Sequences, FiniteSets, TLC

(***************************************************************************)
(* Bounds                                                                  *)
(***************************************************************************)
MaxLen == 8
MaxSegs == 2
MaxDocLines == 3
MaxFiles == 3
MaxListed == 2

NL == "\n"

(***************************************************************************)
(* State                                                                   *)
(***************************************************************************)
\* a call of process_file, process_directory or process_git_repo
VARIABLES
    fs,          \* the files on disk: path -> [data, readable, writable]
    repo,        \* the tree of the remote repository
    nowrite,     \* the directories in which no file can be created
    call,        \* the call being executed
    pc,          \* where the call is
    temp,        \* the temporary directory: "none", "exists", "removed"
    dirsTodo,    \* os.walk: the directories still to visit
    filesTodo,   \* the files of the current directory still to process
    listTodo,    \* files_to_process still to process
    cur,         \* the file_path of process_file
    step,        \* where process_file is
    new_content, \* the content to write
    exc,         \* the exception that is propagating, or "none"
    reports,     \* the messages printed
    passed,      \* the paths process_file was called with, in order
    entry_fs,    \* the files on disk when process_file was entered
    wrote,       \* what process_file wrote so far: "backup", "output"
    outcome      \* how process_file ended

mvars == <<fs, repo, nowrite, call, pc, temp, dirsTodo, filesTodo, listTodo,
           cur, step, new_content, exc, reports, passed, entry_fs,
           wrote, outcome>>

\* regex mode applied twice to one input
VARIABLES
    content,     \* the input
    ext,         \* the extension that selects the patterns
    once,        \* the content after one application
    twice,       \* the content after two applications
    rpc          \* "start", "once", "twice"

rvars == <<content, ext, once, twice, rpc>>

\* safe mode on one Python source: the locals of remove_comments_python_safe
VARIABLES
    source, tree, lines, docstrings, new_lines,
    kept,        \* the 0-based indices of the lines appended to new_lines
    spc          \* "start", "parsed", "ranges", "done", "SyntaxError"

svars == <<source, tree, lines, docstrings, new_lines, kept, spc>>

vars == <<mvars, rvars, svars>>


(***************************************************************************)
(* Sequences of characters                                                 *)
(***************************************************************************)
\* all sequences over S of length at most n
SeqsUpTo(S, n) == UNION {[1..k -> S] : k \in 0..n}

\* s[i..] starts with the literal lit
StartsAt(s, i, lit) ==
    /\ i + Len(lit) - 1 <= Len(s)
    /\ \A k \in 1..Len(lit) : s[i + k - 1] = lit[k]

(***************************************************************************)
(* Regex mode: COMMENT_PATTERNS and re.sub                                 *)
(***************************************************************************)
\* r"//.*"
SlashSlash == [kind |-> "line", open |-> <<"/", "/">>, close |-> <<>>]
\* r"#.*"
Hash == [kind |-> "line", open |-> <<"#">>, close |-> <<>>]
\* r"/\*[\s\S]*?\*/"
SlashStar == [kind |-> "block", open |-> <<"/", "*">>, close |-> <<"*", "/">>]
\* r"<!--[\s\S]*?-->"
HtmlComment == [kind |-> "block", open |-> <<"<", "!", "-", "-">>,
                close |-> <<"-", "-", ">">>]

COMMENT_PATTERNS ==
    [e \in {".c", ".cpp", ".java", ".js", ".ts", ".sh", ".rb", ".go",
            ".php", ".html", ".css"} |->
        CASE e \in {".c", ".cpp", ".java", ".js", ".ts", ".go"} ->
                 <<SlashSlash, SlashStar>>
          [] e \in {".sh", ".rb"} -> <<Hash>>
          [] e = ".php" -> <<SlashSlash, SlashStar, Hash>>
          [] e = ".html" -> <<HtmlComment>>
          [] e = ".css" -> <<SlashStar>>]

\* The index of the last character of the match of p that starts at i, or 0
\* when p does not match at i.  "." matches everything but a newline and is
\* greedy; "[\s\S]*?" matches everything and is lazy.
MatchEnd(p, s, i) ==
    IF ~StartsAt(s, i, p.open) THEN 0
    ELSE IF p.kind = "line"
    THEN LET stops == {j \in i + Len(p.open)..Len(s) : s[j] = NL}
         IN  IF stops = {} THEN Len(s)
             ELSE (CHOOSE j \in stops : \A k \in stops : j <= k) - 1
    ELSE LET ends == {j \in i + Len(p.open)..Len(s) : StartsAt(s, j, p.close)}
         IN  IF ends = {} THEN 0
             ELSE (CHOOSE j \in ends : \A k \in ends : j <= k) + Len(p.close) - 1

RECURSIVE SubFrom(_, _, _)
SubFrom(p, s, i) ==
    IF i > Len(s) THEN <<>>
    ELSE LET e == MatchEnd(p, s, i)
         IN  IF e = 0 THEN <<s[i]>> \o SubFrom(p, s, i + 1)
             ELSE SubFrom(p, s, e + 1)

\* re.sub(pattern, '', content, flags=re.MULTILINE)
re_sub(p, s) == SubFrom(p, s, 1)

RECURSIVE ApplyPatternsLastFirst(_, _)
\* the patterns applied from the last to the first
ApplyPatternsLastFirst(patterns, s) ==
    IF patterns = <<>> THEN s
    ELSE ApplyPatternsLastFirst(SubSeq(patterns, 1, Len(patterns) - 1),
                                re_sub(patterns[Len(patterns)], s))

RECURSIVE ApplyPatterns(_, _)
\* for pattern in patterns: content = re.sub(pattern, '', content, ...)
ApplyPatterns(patterns, s) ==
    IF patterns = <<>> THEN s
    ELSE ApplyPatterns(Tail(patterns), re_sub(Head(patterns), s))

\* the characters a regex-mode input is drawn from, by extension
Alphabet(e) ==
    CASE e \in {".c", ".cpp", ".java", ".js", ".ts", ".go"} -> {"/", "*", NL}
      [] e \in {".sh", ".rb"} -> {"#", "a", NL}
      [] e = ".php" -> {"/", "*", "#", NL}
      [] e = ".html" -> {"<", "!", "-", ">"}
      [] e = ".css" -> {"/", "*", "a"}

(***************************************************************************)
(* Text <-> lines                                                          *)
(***************************************************************************)
RECURSIVE SplitFrom(_, _, _)
SplitFrom(s, i, acc) ==
    IF i > Len(s) THEN (IF acc = <<>> THEN <<>> ELSE <<acc>>)
    ELSE IF s[i] = NL THEN <<acc>> \o SplitFrom(s, i + 1, <<>>)
    ELSE SplitFrom(s, i + 1, Append(acc, s[i]))

\* str.splitlines(): a final newline does not open a last, empty line
splitlines(s) == SplitFrom(s, 1, <<>>)

RECURSIVE join(_)
\* "\n".join(lines)
join(ls) ==
    IF ls = <<>> THEN <<>>
    ELSE IF Len(ls) = 1 THEN ls[1]
    ELSE ls[1] \o <<NL>> \o join(Tail(ls))

\* the number of leading blanks of a line
Indent(l) ==
    LET nb == {k \in 1..Len(l) : l[k] # " "}
    IN  IF nb = {} THEN Len(l) ELSE (CHOOSE k \in nb : \A m \in nb : k <= m) - 1

\* str.lstrip()
lstrip(l) == SubSeq(l, Indent(l) + 1, Len(l))

\* str.strip()
strip(l) ==
    LET t == lstrip(l)
        nb == {k \in 1..Len(t) : t[k] # " "}
    IN  IF nb = {} THEN <<>>
        ELSE SubSeq(t, 1, CHOOSE k \in nb : \A m \in nb : k >= m)

\* str.startswith("#")
startswith(l, c) == Len(l) >= 1 /\ l[1] = c

(***************************************************************************)
(* ast.parse, for the fragment of Python that the inputs are written in:    *)
(* simple statements "x", function headers "D" with a body one level in,   *)
(* triple quoted string statements, whole-line comments and blank lines.   *)
(***************************************************************************)
SyntaxError == [ok |-> FALSE, nodes |-> {}]

\* the positions of a triple quote in a line
Quotes(l) == {k \in 1..Len(l) : l[k] = "Q"}

Least(S) == CHOOSE k \in S : \A m \in S : k <= m

RECURSIVE ParseFrom(_, _, _, _, _)
\* mode: "start" before the first statement of the module, "top" at module
\* level, "afterdef" right after a header, "inbody" inside a function body
\* whose statements are indented by body
ParseFrom(ls, i, mode, body, nodes) ==
    IF i > Len(ls)
    THEN (IF mode = "afterdef" THEN SyntaxError ELSE [ok |-> TRUE, nodes |-> nodes])
    ELSE
    LET l == ls[i]
        ind == Indent(l)
        rest == lstrip(l)
    IN  IF rest = <<>> \/ rest[1] = "#"
        THEN ParseFrom(ls, i + 1, mode, body, nodes)
        ELSE
        LET indentOk == CASE mode \in {"start", "top"} -> ind = 0
                          [] mode = "afterdef" -> ind > 0
                          [] mode = "inbody" -> ind = body \/ ind = 0
            \* the block the statement belongs to once it is read
            after == IF mode = "afterdef" \/ (mode = "inbody" /\ ind = body)
                     THEN "inbody" ELSE "top"
            newBody == IF mode = "afterdef" THEN ind ELSE body
            isDoc == mode \in {"start", "afterdef"}
        IN  IF ~indentOk THEN SyntaxError
            ELSE IF rest[1] = "D"
            THEN (IF ind = 0 /\ Len(rest) = 1
                  THEN ParseFrom(ls, i + 1, "afterdef", 0, nodes)
                  ELSE SyntaxError)
            ELSE IF rest[1] = "Q"
            THEN LET same == Quotes(Tail(rest))
                     later == {j \in i + 1..Len(ls) : Quotes(ls[j]) # {}}
                 IN  IF same # {}
                     THEN LET node == [lineno |-> i, end_lineno |-> i,
                                       value |-> <<SubSeq(Tail(rest), 1, Least(same) - 1)>>]
                          IN  ParseFrom(ls, i + 1, after, newBody,
                                        IF isDoc THEN nodes \cup {node} ELSE nodes)
                     ELSE IF later = {} THEN SyntaxError
                     ELSE LET j == Least(later)
                              node == [lineno |-> i, end_lineno |-> j,
                                       value |-> <<Tail(rest)>>
                                                 \o SubSeq(ls, i + 1, j - 1)
                                                 \o <<SubSeq(ls[j], 1, Least(Quotes(ls[j])) - 1)>>]
                          IN  ParseFrom(ls, j + 1, after, newBody,
                                        IF isDoc THEN nodes \cup {node} ELSE nodes)
            ELSE ParseFrom(ls, i + 1, after, newBody, nodes)

\* ast.parse(source), reduced to what the caller reads of the tree: for each
\* Module / FunctionDef whose body[0] is a string expression, that
\* expression's lineno, end_lineno and value (as lines)
ast_parse(text) == ParseFrom(splitlines(text), 1, "start", 0, {})

(***************************************************************************)
(* ast.get_docstring(node) = inspect.cleandoc(node.body[0].value)          *)
(***************************************************************************)
MaxSize == 1000

Min(a, b) == IF a <= b THEN a ELSE b

RECURSIVE Margin(_, _)
Margin(ls, i) ==
    IF i > Len(ls) THEN MaxSize
    ELSE IF lstrip(ls[i]) # <<>> THEN Min(Indent(ls[i]), Margin(ls, i + 1))
    ELSE Margin(ls, i + 1)

RECURSIVE PopTrailing(_)
PopTrailing(ls) ==
    IF ls # <<>> /\ ls[Len(ls)] = <<>> THEN PopTrailing(SubSeq(ls, 1, Len(ls) - 1))
    ELSE ls

RECURSIVE PopLeading(_)
PopLeading(ls) ==
    IF ls # <<>> /\ ls[1] = <<>> THEN PopLeading(Tail(ls)) ELSE ls

\* inspect.cleandoc, on the lines of the string
cleandoc(ls) ==
    LET margin == Margin(ls, 2)
        cut == [i \in 1..Len(ls) |->
                   IF i = 1 THEN lstrip(ls[1])
                   ELSE IF margin < MaxSize
                        THEN SubSeq(ls[i], margin + 1, Len(ls[i]))
                        ELSE ls[i]]
    IN  join(PopLeading(PopTrailing(cut)))

get_docstring(node) == cleandoc(node.value)

(***************************************************************************)
(* remove_comments_python_safe: the docstring ranges and the line filter   *)
(***************************************************************************)
\* docstrings[(doc_start, doc_end)] = True, for every node with a non-empty
\* docstring; line indices are 0-based as in the source
Docstrings(nodes) ==
    {<<n.lineno - 1, (n.lineno - 1) + Len(splitlines(get_docstring(n)))>> :
        n \in {m \in nodes : get_docstring(m) # <<>>}}

\* any(start <= i <= end for start, end in docstrings.keys())
Protected(ranges, i) == \E r \in ranges : r[1] <= i /\ i <= r[2]

\* the 0-based indices of the lines the loop appends to new_lines
KeptIndices(ls, ranges) ==
    {i \in 0..Len(ls) - 1 :
        Protected(ranges, i) \/ ~startswith(strip(ls[i + 1]), "#")}

RECURSIVE Select(_, _, _)
Select(ls, keep, i) ==
    IF i > Len(ls) - 1 THEN <<>>
    ELSE (IF i \in keep THEN <<ls[i + 1]>> ELSE <<>>) \o Select(ls, keep, i + 1)

NewLines(ls, ranges) == Select(ls, KeptIndices(ls, ranges), 0)

(***************************************************************************)
(* Python inputs: a program is a short sequence of segments, each a whole  *)
(* line comment, a simple statement, a function header or a triple-quoted  *)
(* string statement of up to MaxDocLines lines.                            *)
(***************************************************************************)
\* what a line of a string holds between the quotes: nothing, text that
\* starts with '#', other text
Inner == {<<>>, <<"#">>, <<"d">>}

Blanks(n) == [k \in 1..n |-> " "]

\* the source lines of a string statement indented by ind
StringSeg(ind, body) ==
    IF Len(body) = 1
    THEN <<Blanks(ind) \o <<"Q">> \o body[1] \o <<"Q">>>>
    ELSE [i \in 1..Len(body) |->
            IF i = 1 THEN Blanks(ind) \o <<"Q">> \o body[1]
            ELSE IF i = Len(body) THEN Blanks(ind) \o body[i] \o <<"Q">>
            ELSE IF body[i] = <<>> THEN <<>>
            ELSE Blanks(ind) \o body[i]]

\* a function: its header and, as the first statement of its body, a string
FunctionSeg(body) == << <<"D">> >> \o StringSeg(1, body)

Segments ==
    {<< <<"#">> >>, << <<" ", "#">> >>, << <<"x", " ", "#">> >>,
     << <<" ", "x">> >>, << <<"D">> >>}
    \cup {StringSeg(0, b) : b \in SeqsUpTo(Inner, MaxDocLines) \ {<<>>}}
    \cup {FunctionSeg(b) : b \in SeqsUpTo(Inner, MaxDocLines) \ {<<>>}}

RECURSIVE Flatten(_)
Flatten(segs) == IF segs = <<>> THEN <<>> ELSE Head(segs) \o Flatten(Tail(segs))

\* the text of a program: its lines, each ended by a newline
RECURSIVE Text(_)
Text(ls) == IF ls = <<>> THEN <<>> ELSE Head(ls) \o <<NL>> \o Text(Tail(ls))

\* the programs of at most n segments
Programs(n) == {Text(Flatten(p)) : p \in SeqsUpTo(Segments, n)}

(***************************************************************************)
(* The filesystem.  A path is a directory (its components) and a basename  *)
(* (its dot-separated parts: <<"a", ".js">> is "a.js").                    *)
(***************************************************************************)
NUL == "NUL"
XFF == "xFF"

\* dest_folder=None
None == <<"<None>">>
\* tempfile.mkdtemp()
TempDir == <<"tmp">>
\* the directory given to process_directory / holding the file given to
\* process_file
Root == <<"proj">>
\* the destination folder, outside the processed tree
OutDir == <<"cwd", "out">>

os_path_join(folder, base) == [dir |-> folder, base |-> base]

os_path_basename(path) == path.base

\* os.path.splitext(file_path)[1]
splitext(path) ==
    IF Len(path.base) >= 2 THEN path.base[Len(path.base)] ELSE ""

\* str.lower(), on the extensions of the model
lower(e) == CASE e = ".JS" -> ".js" [] e = ".PY" -> ".py" [] OTHER -> e

IsPrefix(a, b) == Len(a) <= Len(b) /\ SubSeq(b, 1, Len(a)) = a

\* block = f.read(blocksize); return b'\0' not in block; False when the
\* file cannot be opened
blocksize == 512

\* is_text_file without the test for a null byte
is_text_file_NoNullTest(files, path) ==
    /\ path \in DOMAIN files
    /\ files[path].readable

is_text_file(files, path) ==
    /\ path \in DOMAIN files
    /\ files[path].readable
    /\ \A i \in 1..Min(blocksize, Len(files[path].data)) : files[path].data[i] # NUL

\* backup_path: os.path.join(dest_folder, basename) or f"{file_path}.bak"
BackupPath(path, dest) ==
    IF dest # None THEN os_path_join(dest, os_path_basename(path))
    ELSE [path EXCEPT !.base = Append(@, ".bak")]

\* output_path: os.path.join(dest_folder, basename) if dest_folder else file_path
OutputPath(path, dest) ==
    IF dest # None THEN os_path_join(dest, os_path_basename(path)) ELSE path

\* open(..., encoding="utf-8").read() raises on a byte that is not UTF-8
Decodable(data) == \A i \in 1..Len(data) : data[i] # XFF

\* '.git' in root.split(os.sep)
InGit(root) == \E i \in 1..Len(root) : root[i] = ".git"

\* the content the safe mode writes for a source that parses
SafeOutput(data) ==
    LET ls == splitlines(data)
    IN  join(NewLines(ls, Docstrings(ast_parse(data).nodes)))

\* the cleanup on the normal path only, not in a finally clause
OnRaiseNoFinally(op) == "raised"

\* where an exception that leaves process_file goes: the finally clause of
\* process_git_repo, or out of the call
OnRaise(op) == IF op = "process_git_repo" THEN "finally" ELSE "raised"

\* open(path, "w") and the destination of shutil.copy2: an existing file
\* must be writable, a new one needs a directory that takes new files
CanWrite(files, readonly, q) ==
    IF q \in DOMAIN files THEN files[q].writable ELSE q.dir \notin readonly

\* the files of `files` with path q changed to hold d
WriteFile(files, q, d) ==
    [x \in DOMAIN files \cup {q} |-> IF x = q THEN d ELSE files[x]]

(***************************************************************************)
(* Inputs: a tree of at most MaxFiles files out of Candidates              *)
(***************************************************************************)
JsLine == <<"x", "/", "/", "c", NL>>
JsBlock == <<"/", "*", "c", "*", "/", "y", NL>>
PyGood == Text(<< <<"Q", "d", "Q">>, <<"#">>, <<"#">>, <<"x", " ", "#">> >>)
PyBad == <<"D", NL>>

File(d, b, c, r, w) ==
    [dir |-> d, base |-> b, data |-> c, readable |-> r, writable |-> w]

Candidates ==
    { File(<<>>, <<"a", ".js">>, JsLine, TRUE, TRUE),
      File(<<"sub">>, <<"a", ".js">>, JsBlock, TRUE, TRUE),
      File(<<>>, <<"m", ".py">>, PyGood, TRUE, TRUE),
      File(<<>>, <<"bad", ".PY">>, PyBad, TRUE, TRUE),
      File(<<".git">>, <<"h", ".js">>, JsLine, TRUE, TRUE),
      File(<<"sub", ".git">>, <<"m", ".py">>, PyGood, TRUE, TRUE),
      File(<<>>, <<"b", ".js">>, <<NUL, "/", "/">>, TRUE, TRUE),
      File(<<>>, <<"l", ".JS">>, <<XFF, "/", "/">>, TRUE, TRUE),
      File(<<>>, <<"n", ".txt">>, <<"#", "c", NL>>, TRUE, TRUE),
      File(<<>>, <<"README">>, <<"#", "c", NL>>, TRUE, TRUE),
      File(<<"sub">>, <<"s", ".js">>, JsLine, FALSE, TRUE),
      File(<<"sub">>, <<"r", ".js">>, JsLine, TRUE, FALSE),
      File(<<>>, <<"r", ".py">>, PyGood, TRUE, FALSE),
      File(<<"sub">>, <<"u", ".py">>, <<XFF, NL>>, TRUE, TRUE) }

Trees == {t \in SUBSET Candidates : Cardinality(t) <= MaxFiles}

\* the files of tree t, placed under directory root
Placed(t, root) ==
    [q \in {os_path_join(root \o f.dir, f.base) : f \in t} |->
        LET f == CHOOSE g \in t : os_path_join(root \o g.dir, g.base) = q
        IN  [data |-> f.data, readable |-> f.readable, writable |-> f.writable]]

\* --git-files: paths relative to the clone, one of them not in the repo
Missing == [dir |-> <<>>, base |-> <<"gone", ".js">>]

FileLists(t) ==
    SeqsUpTo({[dir |-> f.dir, base |-> f.base] : f \in t} \cup {Missing}, MaxListed)
        \ {<<>>}

Calls(t) ==
    {[op |-> "process_file", file |-> q, dest |-> d, files |-> <<>>] :
        q \in DOMAIN Placed(t, Root), d \in {None, OutDir}}
    \cup {[op |-> "process_directory", file |-> Missing, dest |-> d, files |-> <<>>] :
        d \in {None, OutDir}}
    \cup {[op |-> "process_git_repo", file |-> Missing, dest |-> OutDir, files |-> l] :
        l \in FileLists(t) \cup {<<>>}}


\* the state of a part that a specification does not run
IdleMain ==
    /\ fs = <<>> /\ repo = {} /\ nowrite = {} /\ pc = "idle" /\ temp = "none"
    /\ call = [op |-> "none", file |-> Missing, dest |-> None, files |-> <<>>]
    /\ dirsTodo = {} /\ filesTodo = {} /\ listTodo = <<>> /\ cur = Missing
    /\ step = "none" /\ new_content = <<>> /\ exc = "none"
    /\ reports = <<>> /\ passed = <<>> /\ entry_fs = <<>> /\ wrote = <<>>
    /\ outcome = "none"

IdleRegex ==
    /\ content = <<>> /\ ext = ".c" /\ once = <<>> /\ twice = <<>> /\ rpc = "idle"

IdleSafe ==
    /\ source = <<>> /\ tree = {} /\ lines = <<>> /\ docstrings = {}
    /\ new_lines = <<>> /\ kept = {} /\ spc = "idle"

Init ==
    /\ repo \in Trees
    /\ call \in Calls(repo)
    /\ nowrite \in {{}, {OutDir}, {Root \o <<"sub">>}}
    /\ fs = IF call.op = "process_git_repo" THEN <<>> ELSE Placed(repo, Root)
    /\ pc = "start"
    /\ temp = "none"
    /\ dirsTodo = {}
    /\ filesTodo = {}
    /\ listTodo = <<>>
    /\ cur = Missing
    /\ step = "none"
    /\ new_content = <<>>
    /\ exc = "none"
    /\ reports = <<>>
    /\ passed = <<>>
    /\ entry_fs = <<>>
    /\ wrote = <<>>
    /\ outcome = "none"
    /\ IdleRegex
    /\ IdleSafe

\* the call process_file(path, dest_folder=call.dest)
EnterFile(path) ==
    /\ cur' = path
    /\ pc' = "file"
    /\ step' = "classify"
    /\ passed' = Append(passed, path)
    /\ entry_fs' = fs
    /\ wrote' = <<>>
    /\ outcome' = "none"

\* the directories os.walk(root) visits
Walked(files, root) == {root} \cup {q.dir : q \in {x \in DOMAIN files : IsPrefix(root, x.dir)}}

(***************************************************************************)
(* process_file                                                            *)
(***************************************************************************)
CallProcessFile ==
    /\ pc = "start"
    /\ call.op = "process_file"
    /\ EnterFile(call.file)
    /\ UNCHANGED <<fs, repo, nowrite, call, temp, dirsTodo, filesTodo,
                   listTodo, new_content, exc, reports>>
    /\ UNCHANGED <<rvars, svars>>

\* if not is_text_file(file_path): return; then the extension chooses the mode
Classify ==
    /\ pc = "file"
    /\ step = "classify"
    /\ IF ~is_text_file(fs, cur)
       THEN /\ outcome' = "skipped"
            /\ step' = "return"
       ELSE /\ step' = IF lower(splitext(cur)) = ".py" THEN "safe_backup"
                       ELSE "other_patterns"
            /\ UNCHANGED outcome
    /\ UNCHANGED <<fs, repo, nowrite, call, pc, temp, dirsTodo, filesTodo,
                   listTodo, cur, new_content, exc, reports, passed, entry_fs,
                   wrote>>
    /\ UNCHANGED <<rvars, svars>>

\* an exception leaves process_file
Raise(e) ==
    /\ exc' = e
    /\ outcome' = "raised"
    /\ step' = "none"
    /\ pc' = OnRaise(call.op)

\* os.makedirs(dest_folder, exist_ok=True); shutil.copy2(file_path,
\* backup_path): the copy has the content and the permissions of the file; a
\* failure propagates, the copy is in no try block
CopyToBackup(next) ==
    LET b == BackupPath(cur, call.dest)
    IN  IF b = cur \/ ~CanWrite(fs, nowrite, b)
        THEN /\ Raise("OSError")
             /\ UNCHANGED <<fs, wrote>>
        ELSE /\ fs' = WriteFile(fs, b, fs[cur])
             /\ wrote' = Append(wrote, "backup")
             /\ step' = next
             /\ UNCHANGED <<pc, exc, outcome>>

\* the file open(output_path, "w") leaves: an existing file keeps its
\* permissions
Written(files, o, data) ==
    IF o \in DOMAIN files THEN [files[o] EXCEPT !.data = data]
    ELSE [data |-> data, readable |-> TRUE, writable |-> TRUE]

(***************************************************************************)
(* remove_comments_python_safe                                             *)
(***************************************************************************)
SafeBackup ==
    /\ pc = "file"
    /\ step = "safe_backup"
    /\ CopyToBackup("safe_read")
    /\ UNCHANGED <<repo, nowrite, call, temp, dirsTodo, filesTodo, listTodo,
                   cur, new_content, reports, passed, entry_fs>>
    /\ UNCHANGED <<rvars, svars>>

\* source = f.read(); tree = ast.parse(source); ... new_lines
SafeRead ==
    /\ pc = "file"
    /\ step = "safe_read"
    /\ LET data == fs[cur].data
       IN  IF ~Decodable(data)
           THEN /\ Raise("UnicodeDecodeError")
                /\ UNCHANGED new_content
           ELSE IF ~ast_parse(data).ok
           THEN /\ Raise("SyntaxError")
                /\ UNCHANGED new_content
           ELSE /\ new_content' = SafeOutput(data)
                /\ step' = "safe_write"
                /\ UNCHANGED <<pc, exc, outcome>>
    /\ UNCHANGED <<fs, repo, nowrite, call, temp, dirsTodo, filesTodo,
                   listTodo, cur, reports, passed, entry_fs, wrote>>
    /\ UNCHANGED <<rvars, svars>>

\* f.write("\n".join(new_lines)); print(f"Processed safely: ...")
SafeWrite ==
    /\ pc = "file"
    /\ step = "safe_write"
    /\ LET o == OutputPath(cur, call.dest)
       IN  IF ~CanWrite(fs, nowrite, o)
           THEN /\ Raise("OSError")
                /\ UNCHANGED <<fs, wrote, reports>>
           ELSE /\ fs' = WriteFile(fs, o, Written(fs, o, new_content))
                /\ wrote' = Append(wrote, "output")
                /\ reports' = Append(reports, <<"Processed safely", cur>>)
                /\ outcome' = "processed"
                /\ step' = "return"
                /\ UNCHANGED <<pc, exc>>
    /\ UNCHANGED <<repo, nowrite, call, temp, dirsTodo, filesTodo, listTodo,
                   cur, new_content, passed, entry_fs>>
    /\ UNCHANGED <<rvars, svars>>

(***************************************************************************)
(* remove_comments_other                                                   *)
(***************************************************************************)
\* patterns = COMMENT_PATTERNS.get(ext.lower(), []); if not patterns: return
OtherPatterns ==
    /\ pc = "file"
    /\ step = "other_patterns"
    /\ IF lower(splitext(cur)) \notin DOMAIN COMMENT_PATTERNS
       THEN /\ outcome' = "skipped"
            /\ step' = "return"
       ELSE /\ step' = "other_backup"
            /\ UNCHANGED outcome
    /\ UNCHANGED <<fs, repo, nowrite, call, pc, temp, dirsTodo, filesTodo,
                   listTodo, cur, new_content, exc, reports, passed, entry_fs,
                   wrote>>
    /\ UNCHANGED <<rvars, svars>>

OtherBackup ==
    /\ pc = "file"
    /\ step = "other_backup"
    /\ CopyToBackup("other_read")
    /\ UNCHANGED <<repo, nowrite, call, temp, dirsTodo, filesTodo, listTodo,
                   cur, new_content, reports, passed, entry_fs>>
    /\ UNCHANGED <<rvars, svars>>

\* except Exception as e: print(f"Error processing {file_path}: {e}")
Caught ==
    /\ reports' = Append(reports, <<"Error processing", cur>>)
    /\ outcome' = "error"
    /\ step' = "return"

\* content = f.read(); for pattern in patterns: content = re.sub(...)
OtherRead ==
    /\ pc = "file"
    /\ step = "other_read"
    /\ LET data == fs[cur].data
       IN  IF ~Decodable(data)
           THEN /\ Caught
                /\ UNCHANGED new_content
           ELSE /\ new_content' =
                     ApplyPatterns(COMMENT_PATTERNS[lower(splitext(cur))], data)
                /\ step' = "other_write"
                /\ UNCHANGED <<reports, outcome>>
    /\ UNCHANGED <<fs, repo, nowrite, call, pc, temp, dirsTodo, filesTodo,
                   listTodo, cur, exc, passed, entry_fs, wrote>>
    /\ UNCHANGED <<rvars, svars>>

\* f.write(content); print(f"Processed: ...")
OtherWrite ==
    /\ pc = "file"
    /\ step = "other_write"
    /\ LET o == OutputPath(cur, call.dest)
       IN  IF ~CanWrite(fs, nowrite, o)
           THEN /\ Caught
                /\ UNCHANGED <<fs, wrote>>
           ELSE /\ fs' = WriteFile(fs, o, Written(fs, o, new_content))
                /\ wrote' = Append(wrote, "output")
                /\ reports' = Append(reports, <<"Processed", cur>>)
                /\ outcome' = "processed"
                /\ step' = "return"
    /\ UNCHANGED <<repo, nowrite, call, pc, temp, dirsTodo, filesTodo,
                   listTodo, cur, new_content, exc, passed, entry_fs>>
    /\ UNCHANGED <<rvars, svars>>

\* process_file returns to its caller
Return ==
    /\ pc = "file"
    /\ step = "return"
    /\ step' = "none"
    /\ pc' = CASE call.op = "process_file" -> "returned"
               [] call.op = "process_directory" -> "walk"
               [] call.op = "process_git_repo" ->
                      IF call.files = <<>> THEN "walk" ELSE "listed"
    /\ UNCHANGED <<fs, repo, nowrite, call, temp, dirsTodo, filesTodo,
                   listTodo, cur, new_content, exc, reports, passed, entry_fs,
                   wrote, outcome>>
    /\ UNCHANGED <<rvars, svars>>

(***************************************************************************)
(* process_directory                                                       *)
(***************************************************************************)
CallProcessDirectory ==
    /\ pc = "start"
    /\ call.op = "process_directory"
    /\ dirsTodo' = Walked(fs, Root)
    /\ pc' = "walk"
    /\ UNCHANGED <<fs, repo, nowrite, call, temp, filesTodo, listTodo, cur,
                   step, new_content, exc, reports, passed, entry_fs, wrote,
                   outcome>>
    /\ UNCHANGED <<rvars, svars>>

\* for root, _, files in os.walk(directory):
\*     if '.git' in root.split(os.sep): continue
WalkRoot ==
    /\ pc = "walk"
    /\ filesTodo = {}
    /\ \E root \in dirsTodo :
          /\ dirsTodo' = dirsTodo \ {root}
          /\ filesTodo' = IF InGit(root) THEN {}
                          ELSE {q \in DOMAIN fs : q.dir = root}
    /\ UNCHANGED <<fs, repo, nowrite, call, pc, temp, listTodo, cur, step,
                   new_content, exc, reports, passed, entry_fs, wrote,
                   outcome>>
    /\ UNCHANGED <<rvars, svars>>

\* for file in files: process_file(os.path.join(root, file), ...)
WalkFile ==
    /\ pc = "walk"
    /\ \E q \in filesTodo :
          /\ filesTodo' = filesTodo \ {q}
          /\ EnterFile(q)
    /\ UNCHANGED <<fs, repo, nowrite, call, temp, dirsTodo, listTodo,
                   new_content, exc, reports>>
    /\ UNCHANGED <<rvars, svars>>

\* os.walk is exhausted
WalkDone ==
    /\ pc = "walk"
    /\ filesTodo = {}
    /\ dirsTodo = {}
    /\ pc' = IF call.op = "process_git_repo" THEN "saved" ELSE "returned"
    /\ UNCHANGED <<fs, repo, nowrite, call, temp, dirsTodo, filesTodo,
                   listTodo, cur, step, new_content, exc, reports, passed,
                   entry_fs, wrote, outcome>>
    /\ UNCHANGED <<rvars, svars>>

(***************************************************************************)
(* process_git_repo                                                        *)
(***************************************************************************)
\* temp_dir = tempfile.mkdtemp()
Mkdtemp ==
    /\ pc = "start"
    /\ call.op = "process_git_repo"
    /\ temp' = "exists"
    /\ pc' = "clone"
    /\ UNCHANGED <<fs, repo, nowrite, call, dirsTodo, filesTodo, listTodo,
                   cur, step, new_content, exc, reports, passed, entry_fs,
                   wrote, outcome>>
    /\ UNCHANGED <<rvars, svars>>

\* subprocess.run(["git", "clone", repo_url, temp_dir], check=True) succeeds
CloneOk ==
    /\ pc = "clone"
    /\ fs' = Placed(repo, TempDir)
    /\ IF call.files = <<>>
       THEN /\ dirsTodo' = Walked(fs', TempDir)
            /\ pc' = "walk"
            /\ UNCHANGED listTodo
       ELSE /\ listTodo' = call.files
            /\ pc' = "listed"
            /\ UNCHANGED dirsTodo
    /\ UNCHANGED <<repo, nowrite, call, temp, filesTodo, cur, step,
                   new_content, exc, reports, passed, entry_fs, wrote,
                   outcome>>
    /\ UNCHANGED <<rvars, svars>>

\* git clone exits with an error: except CalledProcessError prints it; or
\* the git executable cannot be run: the OSError propagates
CloneFails ==
    /\ pc = "clone"
    /\ \E e \in {"CalledProcessError", "OSError"} :
          IF e = "CalledProcessError"
          THEN /\ reports' = Append(reports, <<"Git error", Missing>>)
               /\ UNCHANGED exc
          ELSE /\ exc' = e
               /\ UNCHANGED reports
    /\ pc' = "finally"
    /\ UNCHANGED <<fs, repo, nowrite, call, temp, dirsTodo, filesTodo,
                   listTodo, cur, step, new_content, passed, entry_fs, wrote,
                   outcome>>
    /\ UNCHANGED <<rvars, svars>>

\* for f in files_to_process: process it if it exists, else report it
ListedFile ==
    /\ pc = "listed"
    /\ listTodo # <<>>
    /\ listTodo' = Tail(listTodo)
    /\ LET full_path == os_path_join(TempDir \o Head(listTodo).dir, Head(listTodo).base)
       IN  IF full_path \in DOMAIN fs
           THEN /\ EnterFile(full_path)
                /\ UNCHANGED reports
           ELSE /\ reports' = Append(reports, <<"File not found in repo", full_path>>)
                /\ UNCHANGED <<cur, pc, step, passed, entry_fs, wrote, outcome>>
    /\ UNCHANGED <<fs, repo, nowrite, call, temp, dirsTodo, filesTodo,
                   new_content, exc>>
    /\ UNCHANGED <<rvars, svars>>

\* files_to_process is exhausted
ListedDone ==
    /\ pc = "listed"
    /\ listTodo = <<>>
    /\ pc' = "saved"
    /\ UNCHANGED <<fs, repo, nowrite, call, temp, dirsTodo, filesTodo,
                   listTodo, cur, step, new_content, exc, reports, passed,
                   entry_fs, wrote, outcome>>
    /\ UNCHANGED <<rvars, svars>>

\* print(f"Processed repo saved to folder: {dest_dir}")
Saved ==
    /\ pc = "saved"
    /\ reports' = Append(reports, <<"Processed repo saved", Missing>>)
    /\ pc' = "finally"
    /\ UNCHANGED <<fs, repo, nowrite, call, temp, dirsTodo, filesTodo,
                   listTodo, cur, step, new_content, exc, passed, entry_fs,
                   wrote, outcome>>
    /\ UNCHANGED <<rvars, svars>>

\* finally: shutil.rmtree(temp_dir)
Finally ==
    /\ pc = "finally"
    /\ fs' = [q \in {x \in DOMAIN fs : ~IsPrefix(TempDir, x.dir)} |-> fs[q]]
    /\ temp' = "removed"
    /\ pc' = IF exc = "none" THEN "returned" ELSE "raised"
    /\ UNCHANGED <<repo, nowrite, call, dirsTodo, filesTodo, listTodo, cur,
                   step, new_content, exc, reports, passed, entry_fs, wrote,
                   outcome>>
    /\ UNCHANGED <<rvars, svars>>

Next ==
    \/ CallProcessFile \/ Classify \/ Return
    \/ SafeBackup \/ SafeRead \/ SafeWrite
    \/ OtherPatterns \/ OtherBackup \/ OtherRead \/ OtherWrite
    \/ CallProcessDirectory \/ WalkRoot \/ WalkFile \/ WalkDone
    \/ Mkdtemp \/ CloneOk \/ CloneFails \/ ListedFile \/ ListedDone
    \/ Saved \/ Finally

Spec == Init /\ [][Next]_vars

(***************************************************************************)
(* Regex mode applied twice to every short input                           *)
(***************************************************************************)

InitRegex ==
    /\ ext \in DOMAIN COMMENT_PATTERNS
    /\ content \in SeqsUpTo(Alphabet(ext), MaxLen)
    /\ once = <<>>
    /\ twice = <<>>
    /\ rpc = "start"
    /\ IdleMain
    /\ IdleSafe

StripFirst ==
    /\ rpc = "start"
    /\ once' = ApplyPatterns(COMMENT_PATTERNS[ext], content)
    /\ rpc' = "once"
    /\ UNCHANGED <<content, ext, twice>>
    /\ UNCHANGED <<mvars, svars>>

StripSecond ==
    /\ rpc = "once"
    /\ twice' = ApplyPatterns(COMMENT_PATTERNS[ext], once)
    /\ rpc' = "twice"
    /\ UNCHANGED <<content, ext, once>>
    /\ UNCHANGED <<mvars, svars>>

NextRegex == StripFirst \/ StripSecond

SpecRegex == InitRegex /\ [][NextRegex]_vars


(***************************************************************************)
(* Safe mode on every program: parse, collect the docstring ranges, filter *)
(***************************************************************************)

InitSafe ==
    /\ source \in Programs(MaxSegs)
    /\ tree = {}
    /\ lines = <<>>
    /\ docstrings = {}
    /\ new_lines = <<>>
    /\ kept = {}
    /\ spc = "start"
    /\ IdleMain
    /\ IdleRegex

\* tree = ast.parse(source); lines = source.splitlines()
ParseSource ==
    /\ spc = "start"
    /\ LET r == ast_parse(source)
       IN  IF r.ok
           THEN /\ tree' = r.nodes
                /\ lines' = splitlines(source)
                /\ spc' = "parsed"
           ELSE /\ spc' = "SyntaxError"
                /\ UNCHANGED <<tree, lines>>
    /\ UNCHANGED <<source, docstrings, new_lines, kept>>
    /\ UNCHANGED <<mvars, rvars>>

\* for node in ast.walk(tree): ... docstrings[(doc_start, doc_end)] = True
CollectDocstrings ==
    /\ spc = "parsed"
    /\ docstrings' = Docstrings(tree)
    /\ spc' = "ranges"
    /\ UNCHANGED <<source, tree, lines, new_lines, kept>>
    /\ UNCHANGED <<mvars, rvars>>

\* for i, line in enumerate(lines): ...
RemoveComments ==
    /\ spc = "ranges"
    /\ kept' = KeptIndices(lines, docstrings)
    /\ new_lines' = NewLines(lines, docstrings)
    /\ spc' = "done"
    /\ UNCHANGED <<source, tree, lines, docstrings>>
    /\ UNCHANGED <<mvars, rvars>>

NextSafe == ParseSource \/ CollectDocstrings \/ RemoveComments

SpecSafe == InitSafe /\ [][NextSafe]_vars

(***************************************************************************)
(* Properties of a call                                                    *)
(***************************************************************************)
\* C1: once process_git_repo has returned or raised, the temporary
\* directory does not exist: it is removed and no file is left under it
C1_TempDirRemoved ==
    (call.op = "process_git_repo" /\ pc \in {"returned", "raised"}) =>
        /\ temp = "removed"
        /\ \A q \in DOMAIN fs : ~IsPrefix(TempDir, q.dir)

\* process_git_repo raised because a file of the clone did not parse
C1_Witness ==
    /\ call.op = "process_git_repo"
    /\ pc = "raised"
    /\ exc = "SyntaxError"
    /\ temp = "removed"

\* C2: a batch (process_directory, process_git_repo once the clone is there)
\* ends with no exception propagating and with no file left unprocessed
C2_FailureNeverAbortsBatch ==
    (/\ call.op \in {"process_directory", "process_git_repo"}
     /\ pc \in {"returned", "raised"}
     /\ passed # <<>>) =>
        /\ exc = "none"
        /\ dirsTodo = {}
        /\ filesTodo = {}
        /\ listTodo = <<>>

\* C3: when process_file returns after processing a file, it wrote the
\* backup and then the output, and the backup holds the content the file
\* had when process_file was entered
C3_BackupHoldsOriginal ==
    (pc = "file" /\ step = "return" /\ outcome = "processed") =>
        /\ wrote = <<"backup", "output">>
        /\ BackupPath(cur, call.dest) \in DOMAIN fs
        /\ fs[BackupPath(cur, call.dest)].data = entry_fs[cur].data

\* the file cannot be read or has a null byte among its first 512 bytes
Binary(files, path) ==
    \/ ~files[path].readable
    \/ \E i \in 1..Len(files[path].data) : i <= 512 /\ files[path].data[i] = NUL

\* the extension, in lower case, is neither .py nor a key of COMMENT_PATTERNS
Unrecognized(path) ==
    lower(splitext(path)) \notin {".py"} \cup DOMAIN COMMENT_PATTERNS

\* C4: for a binary file or a file with an unrecognized extension,
\* process_file goes from the classification straight to its return, and the
\* files on disk are those of its entry: no backup, no output
C4_SkippedFileUntouched ==
    (/\ pc = "file"
     /\ step \notin {"classify", "other_patterns"}
     /\ (Binary(entry_fs, cur) \/ Unrecognized(cur))) =>
        /\ step = "return"
        /\ outcome = "skipped"
        /\ wrote = <<>>
        /\ fs = entry_fs

\* process_file returns from a file with a recognized extension that has a
\* null byte
C4_Witness ==
    /\ pc = "file"
    /\ step = "return"
    /\ ~Unrecognized(cur)
    /\ entry_fs[cur].readable
    /\ Binary(entry_fs, cur)
    /\ fs = entry_fs

\* the files process_directory finds under Root outside any .git directory
OutsideGit == {q \in DOMAIN Placed(repo, Root) : ~InGit(q.dir)}

\* C8: process_directory passes no file under a .git directory to
\* process_file and, when it is over, has passed every other file exactly once
C8_WalkerPassesOthersOnce ==
    call.op = "process_directory" =>
        /\ \A i \in 1..Len(passed) : ~InGit(passed[i].dir)
        /\ pc \in {"returned", "raised"} =>
              \A q \in OutsideGit :
                  Cardinality({i \in 1..Len(passed) : passed[i] = q}) = 1

\* C9: after a .py file failed to parse, in place the file is as it was, and
\* with a destination folder nothing was written at the output path
C9_ParseFailureWritesNothing ==
    exc = "SyntaxError" =>
        IF call.dest = None
        THEN fs[cur] = entry_fs[cur]
        ELSE LET o == OutputPath(cur, call.dest)
             IN  \/ o \notin DOMAIN fs
                 \/ o \in DOMAIN entry_fs /\ fs[o] = entry_fs[o]

\* what stripping writes for a file
Stripped(path, data) ==
    IF lower(splitext(path)) = ".py" THEN SafeOutput(data)
    ELSE ApplyPatterns(COMMENT_PATTERNS[lower(splitext(path))], data)

\* C10: after process_directory has processed a tree into a destination
\* folder, every recognized text file of the tree has its stripped content
\* in the folder, under its basename
C10_EveryFileHasItsOutput ==
    (call.op = "process_directory" /\ call.dest # None /\ pc = "returned") =>
        \A q \in OutsideGit :
            LET f == Placed(repo, Root)[q]
                o == OutputPath(q, call.dest)
            IN  (/\ ~Binary(Placed(repo, Root), q)
                 /\ ~Unrecognized(q)
                 /\ Decodable(f.data)) =>
                    /\ o \in DOMAIN fs
                    /\ fs[o].data = Stripped(q, f.data)

(***************************************************************************)
(* Properties of the safe mode                                             *)
(***************************************************************************)
\* the 0-based indices of the lines a docstring of the tree occupies
DocLines == UNION {n.lineno - 1..n.end_lineno - 1 : n \in tree}

\* line i, stripped, begins with '#'
IsCommentLine(i) == startswith(strip(lines[i + 1]), "#")

\* C5: every source line of every docstring is in the output
C5_DocstringLinesKept == spc = "done" => DocLines \subseteq kept

\* C6: exactly the comment lines outside docstrings are dropped, the others
\* are kept in order
C6_OnlyOutsideCommentsDropped ==
    spc = "done" =>
        /\ kept = {i \in 0..Len(lines) - 1 : i \in DocLines \/ ~IsCommentLine(i)}
        /\ new_lines = Select(lines, kept, 0)

(***************************************************************************)
(* Properties of the regex mode                                            *)
(***************************************************************************)
\* C7, as stated: for every extension, the second application changes nothing
C7_IdempotentEveryExtension == rpc = "twice" => twice = once

\* the extensions whose first pattern is a line comment
LineCommentFirst == DOMAIN COMMENT_PATTERNS \ {".html", ".css"}

\* C7: for every extension but .html and .css, the second application
\* changes nothing
C7_Idempotent == (rpc = "twice" /\ ext \in LineCommentFirst) => twice = once

\* a .php input from which the first application removed something and
\* left something
C7_Witness ==
    /\ rpc = "twice"
    /\ ext = ".php"
    /\ once # content
    /\ once # <<>>
    /\ twice = once
====
